---- MODULE Spec2Model ----
(***************************************************************************)
(* A model of satran/blogengine: the startup compile pass, the request     *)
(* dispatchers of the snapshots the repository holds, the static file      *)
(* system wrapper and the caching static store.                            *)
(*                                                                         *)
(* Strings are sequences of atoms ("/" and " " are atoms of their own), so *)
(* that concatenation, prefix tests and strings.Split are computed.        *)
(***************************************************************************)
EXTENDS Integers, Sequences, FiniteSets, TLC

VARIABLES
    variant,      \* which snapshot of the server is running
    phase,        \* "boot" | "serving" | "failed"
    files,        \* the article directory, in ioutil.ReadDir (file name) order
    host,         \* config.Host
    bearerToken,  \* config.MetricsToken
    alias,        \* the alias table (a function from paths to targets)
    d,            \* the content index (a function from paths to bytes)
    pages,        \* the pages in listing order
    req,          \* the request being answered (NoReq before the first)
    calls,        \* the calls the handler made on its response writer
    disk,         \* the static directory: what Open, Stat and a read return
    cache,        \* the caching static store's map (path -> entry)
    reads,        \* how often each static path's file was read from disk
    ret,          \* what the last Open of the static store returned
    pc,           \* where each goroutine that calls the caching store is
    lock,         \* the goroutine that holds the store's lock, 0 when it is free
    want,         \* the path each goroutine gave to Open
    out           \* the bytes each goroutine has read from the entry it got

vars == <<variant, phase, files, host, bearerToken, alias, d, pages, req, calls,
          disk, cache, reads, ret, pc, lock, want, out>>

\* the variables of the goroutines that call the caching store concurrently
goroutines == <<pc, lock, want, out>>

-----------------------------------------------------------------------------
(* Bounds of the model *)

MaxHdrLen == 3
MaxFiles == 2
MaxReads == 2
NumProcs == 2
MaxOut == 3
MaxCalls == 3

-----------------------------------------------------------------------------
(* Strings *)

HasPrefix(s, p) == Len(s) >= Len(p) /\ SubSeq(s, 1, Len(p)) = p

TrimPrefix(s, p) == IF HasPrefix(s, p) THEN SubSeq(s, Len(p) + 1, Len(s)) ELSE s

RECURSIVE Split(_, _)
Split(s, sep) ==
    IF \E i \in 1..Len(s) : s[i] = sep
    THEN LET i == CHOOSE k \in 1..Len(s) :
                      s[k] = sep /\ \A j \in 1..(k - 1) : s[j] # sep
         IN  <<SubSeq(s, 1, i - 1)>> \o Split(SubSeq(s, i + 1, Len(s)), sep)
    ELSE <<s>>

RECURSIVE SeqsUpTo(_, _)
SeqsUpTo(S, n) ==
    IF n = 0 THEN {<<>>}
    ELSE LET shorter == SeqsUpTo(S, n - 1)
         IN  shorter \cup {Append(s, a) : s \in shorter, a \in S}

-----------------------------------------------------------------------------
(* The static directory, as http.Dir shows it.  A node is what the system  *)
(* calls on a path return: "absent" (Open fails, not-exist), "denied"      *)
(* (Open fails, permission), "file", "dir", "badstat" (Open succeeds, Stat *)
(* fails), "badread" (a regular file whose read fails).                    *)

Slash == "/"

XPng == <<Slash, "x.png">>
Docs == <<Slash, "docs">>
DocsSlash == <<Slash, "docs", Slash>>
DocsIndex == <<Slash, "docs", Slash, "index.html">>

\* the paths a static request can name, and the files and directories on disk
StaticPaths == {XPng, Docs, DocsSlash, DocsIndex}
Nodes == {XPng, Docs, DocsIndex}

Versions == {1, 2}

VersionBytes(v) == IF v = 1 THEN <<"v1a", "v1b">> ELSE <<"v2a", "v2b">>

ENOENT == "file does not exist"
EACCES == "permission denied"

\* strings.TrimSuffix(path, "/")
TrimSlash(path) ==
    IF Len(path) > 0 /\ path[Len(path)] = Slash THEN SubSeq(path, 1, Len(path) - 1) ELSE path

\* strings.TrimSuffix(path, "/") + "/index.html"
IndexOf(path) == TrimSlash(path) \o <<Slash, "index.html">>

Absent == [kind |-> "absent", version |-> 1]

\* http.Dir joins the cleaned path to its root: a trailing slash names the same node
Node(dsk, path) ==
    IF TrimSlash(path) \in DOMAIN dsk THEN dsk[TrimSlash(path)] ELSE Absent

\* http.Dir.Open: the error, or "" when the path opens
DirOpen(dsk, path) ==
    CASE Node(dsk, path).kind = "absent" -> ENOENT
      [] Node(dsk, path).kind = "denied" -> EACCES
      [] OTHER -> ""

\* the bytes of a file on disk
Bytes(dsk, path) ==
    IF Node(dsk, path).kind \in {"file", "badread"}
    THEN VersionBytes(Node(dsk, path).version)
    ELSE <<>>

\* File.Readdir of an opened directory: the names inside it that exist
Readdir(dsk, path) ==
    IF Node(dsk, IndexOf(path)).kind # "absent" THEN <<"index.html">> ELSE <<>>

NoFile == [err |-> "", panic |-> FALSE, path |-> <<>>, isDir |-> FALSE,
           content |-> <<>>, listing |-> <<>>, cursor |-> 0]

Failed(e) == [NoFile EXCEPT !.err = e]

Panicked == [NoFile EXCEPT !.panic = TRUE]

Opened(dsk, path) ==
    [NoFile EXCEPT !.path = path, !.isDir = (Node(dsk, path).kind = "dir"),
                   !.content = Bytes(dsk, path), !.listing = Readdir(dsk, path)]

\* an Open that lets every directory through
FileSystemOpenAnyDirectory(dsk, path) ==
    IF DirOpen(dsk, path) # "" THEN Failed(DirOpen(dsk, path))
    ELSE IF Node(dsk, path).kind = "badstat" THEN Panicked
    ELSE Opened(dsk, path)

\* FileSystem.Open: a directory opens only when its index.html opens.  Stat's
\* error is not looked at: s is nil when Stat fails and s.IsDir() panics.
FileSystemOpen(dsk, path) ==
    IF DirOpen(dsk, path) # "" THEN Failed(DirOpen(dsk, path))
    ELSE IF Node(dsk, path).kind = "badstat" THEN Panicked
    ELSE IF Node(dsk, path).kind = "dir" /\ DirOpen(dsk, IndexOf(path)) # ""
         THEN Failed(DirOpen(dsk, IndexOf(path)))
    ELSE Opened(dsk, path)

-----------------------------------------------------------------------------
(* The caching static store (newFileSystem): one map under one lock.  Open *)
(* runs wholly under the lock, so it is one step.  It gives back the       *)
(* call's result, the map and the disk-read counts after it.               *)

Bump(rd, path) == [rd EXCEPT ![path] = IF @ < MaxReads THEN @ + 1 ELSE @]

\* a miss: the path is opened; a directory's index.html must open too, and a
\* failure there, like a failing stat or read, is given back as not-found;
\* the whole file is read and the entry is put in the map
CacheMiss(c, dsk, rd, path) ==
    IF DirOpen(dsk, path) # ""
    THEN [ret |-> Failed(DirOpen(dsk, path)), cache |-> c, reads |-> rd]
    ELSE IF Node(dsk, path).kind = "badstat"
    THEN [ret |-> Failed(ENOENT), cache |-> c, reads |-> rd]
    ELSE IF Node(dsk, path).kind = "dir" /\ DirOpen(dsk, IndexOf(path)) # ""
    THEN [ret |-> Failed(ENOENT), cache |-> c, reads |-> rd]
    ELSE IF Node(dsk, path).kind = "badread"
    THEN [ret |-> Failed(ENOENT), cache |-> c, reads |-> Bump(rd, path)]
    ELSE [ret |-> Opened(dsk, path),
          cache |-> [q \in DOMAIN c \cup {path} |->
                        IF q = path THEN Opened(dsk, path) ELSE c[q]],
          reads |-> Bump(rd, path)]

\* a hit that hands the entry back with its cursor where the last reader left it
CacheHitKeepsCursor(c, dsk, rd, path) == [ret |-> c[path], cache |-> c, reads |-> rd]

CacheHit(c, dsk, rd, path) ==
    [ret |-> [c[path] EXCEPT !.cursor = 0],
     cache |-> [c EXCEPT ![path].cursor = 0],
     reads |-> rd]

CachingOpen(c, dsk, rd, path) ==
    IF path \in DOMAIN c THEN CacheHit(c, dsk, rd, path)
    ELSE CacheMiss(c, dsk, rd, path)

-----------------------------------------------------------------------------
(* Requests and the calls a handler makes on its response writer *)

Root == <<Slash>>
MetricsPath == <<Slash, "metrics">>
FeedPath == <<Slash, "feed.xml">>
BPrefix == <<Slash, "b", Slash>>
SPrefix == <<Slash, "s", Slash>>

NoReq == [path |-> <<>>, host |-> "", query |-> <<>>, auth |-> <<>>]

WriteHeader(c) == [op |-> "WriteHeader", code |-> c, data |-> <<>>]
Write(b) == [op |-> "Write", code |-> 0, data |-> b]
Location(u) == [op |-> "Location", code |-> 0, data |-> u]
Delegate(h) == [op |-> "Delegate", code |-> 0, data |-> <<h>>]
OpenCall(path) == [op |-> "Open", code |-> 0, data |-> path]
Inc(c) == [op |-> "Inc", code |-> c, data |-> <<>>]
Panic == [op |-> "panic", code |-> 0, data |-> <<>>]

\* http.Redirect: the Location header, the status, and a short body
Redirect(url, code) == <<Location(url), WriteHeader(code), Write(<<"<a href>">>)>>

\* promhttp.Handler(): the metrics page
MetricsHandler == <<Delegate("metrics"), Write(<<"# metrics">>)>>

\* net/http's toHTTPError
ToHTTPError(e) == IF e = ENOENT THEN 404 ELSE IF e = EACCES THEN 403 ELSE 500

\* http.FileServer on the result of its file system's Open of path.  (Its
\* redirects to a directory's canonical URL are left out.)
FileServer(path, f) ==
    <<OpenCall(path)>> \o
    (IF f.panic THEN <<Panic>>
     ELSE IF f.err # ""
     THEN <<WriteHeader(ToHTTPError(f.err)), Write(<<"error">>)>>
     ELSE <<WriteHeader(200), Write(IF f.isDir THEN f.listing ELSE f.content)>>)

\* ResponseWriter.StatusCode: statusCode is set by every WriteHeader call
RECURSIVE LastHeader(_)
LastHeader(cs) ==
    IF cs = <<>> THEN 0
    ELSE IF cs[Len(cs)].op = "WriteHeader" THEN cs[Len(cs)].code
    ELSE LastHeader(SubSeq(cs, 1, Len(cs) - 1))

StatusCode(cs) == IF LastHeader(cs) = 0 THEN 200 ELSE LastHeader(cs)

-----------------------------------------------------------------------------
(* Startup: the compile pass *)

Layout == "02/01/2006"

\* time.Parse(Layout, line): the date as a number (yyyymmdd), 0 for an error
ParseDate(line) ==
    CASE line = "01/02/2023" -> 20230201
      [] line = "03/02/2023" -> 20230203
      [] line = "02/01/2024" -> 20240102
      [] OTHER -> 0

\* the page's URL path: "/b/" and the file name without its extension
PagePath(name) == BPrefix \o (IF Len(name) > 1 THEN SubSeq(name, 1, Len(name) - 1) ELSE name)

NoPage == [err |-> "", Path |-> <<>>, Title |-> "", Date |-> 0, Content |-> <<>>]

\* bufio.Reader.ReadLine: the n-th line, empty at the end of the file
Line(f, n) == IF n <= Len(f.lines) THEN f.lines[n] ELSE ""

\* ioutil.ReadAll of what follows the second line
Body(f) == IF Len(f.lines) > 2 THEN SubSeq(f.lines, 3, Len(f.lines)) ELSE <<>>

\* parsePage (page.go:153): line 1 is the title, line 2 the date, the rest the
\* body; the page is the template filled with them
parsePage(f) ==
    IF ParseDate(Line(f, 2)) = 0 THEN [NoPage EXCEPT !.err = "parsing date"]
    ELSE IF ~f.render THEN [NoPage EXCEPT !.err = "template parsing"]
    ELSE [NoPage EXCEPT !.Path = PagePath(f.name), !.Title = Line(f, 1),
                        !.Date = ParseDate(Line(f, 2)),
                        !.Content = <<"<h1>", Line(f, 1), Line(f, 2)>> \o Body(f)]

\* a loop that leaves out the files that fail and goes on
RECURSIVE parseLoopSkipping(_, _, _)
parseLoopSkipping(fs, articles, index) ==
    IF fs = <<>> THEN [err |-> "", articles |-> articles, index |-> index]
    ELSE IF ~Head(fs).open \/ parsePage(Head(fs)).err # ""
    THEN parseLoopSkipping(Tail(fs), articles, index)
    ELSE LET p == parsePage(Head(fs)) IN
         parseLoopSkipping(Tail(fs),
                           [q \in DOMAIN articles \cup {p.Path} |->
                               IF q = p.Path THEN p.Content ELSE articles[q]],
                           Append(index, p))

\* the loop of parse: the pages in directory order, or the first error
RECURSIVE parseLoop(_, _, _)
parseLoop(fs, articles, index) ==
    IF fs = <<>> THEN [err |-> "", articles |-> articles, index |-> index]
    ELSE IF ~Head(fs).open THEN [err |-> "open file", articles |-> <<>>, index |-> <<>>]
    ELSE LET p == parsePage(Head(fs)) IN
         IF p.err # "" THEN [err |-> p.err, articles |-> <<>>, index |-> <<>>]
         ELSE parseLoop(Tail(fs),
                        [q \in DOMAIN articles \cup {p.Path} |->
                            IF q = p.Path THEN p.Content ELSE articles[q]],
                        Append(index, p))

\* Pages.Less: by date
Less(p, q) == p.Date < q.Date

\* the orders sort.Sort(sort.Reverse(Pages(ps))) may leave ps in: sort.Sort is
\* not stable, so pages of equal date end in any order
Orders(ps) ==
    {[i \in 1..Len(ps) |-> ps[f[i]]] :
        f \in {g \in [1..Len(ps) -> 1..Len(ps)] :
                  \A i, j \in 1..Len(ps) : i # j => g[i] # g[j]}}

SortReverse(ps) ==
    {qs \in Orders(ps) :
        \A i, j \in 1..Len(qs) : i < j => ~Less(qs[i], qs[j])}

\* the index template: one line per page, in the order given
RECURSIVE Listing(_)
Listing(ps) ==
    IF ps = <<>> THEN <<>> ELSE Head(ps).Path \o <<Head(ps).Title>> \o Listing(Tail(ps))

\* renderIndex of main.go:150 and part_002:169: sort, then render
renderIndexSorted(index) == {[pages |-> qs, bytes |-> <<"<index>">> \o Listing(qs)] :
                                qs \in SortReverse(index)}

\* renderIndex of part_004:195: render in the order given
renderIndexAsRead(index) == {[pages |-> index, bytes |-> <<"<index>">> \o Listing(index)]}

-----------------------------------------------------------------------------
(* The dispatchers.  Each gives the calls made on the response writer.     *)

Space == " "

\* the redirect target: the alias, and "?" and the raw query when there is one
Target(r) == alias[r.path] \o (IF Len(r.query) > 0 THEN <<"?">> \o r.query ELSE <<>>)

\* m.static of main.go:70 and part_002:89: the whole request path is looked up
static(r) == FileServer(r.path, FileSystemOpen(disk, r.path))

\* the metrics stage of mux.ServeHTTP: the log line reads the second chunk
\* also when there is none
metricsStage(r) ==
    LET chunks == Split(r.auth, Space) IN
    IF Len(chunks) = 2 /\ chunks[2] = bearerToken THEN MetricsHandler
    ELSE IF Len(chunks) < 2 THEN <<Panic>>
    ELSE <<WriteHeader(401)>>

\* mux.ServeHTTP of main.go:169 and part_002:205: the alias is looked up
\* before the content
muxStages(r) ==
    IF r.path = MetricsPath THEN metricsStage(r)
    ELSE IF r.host # host THEN <<WriteHeader(404)>>
    ELSE IF r.path \in DOMAIN alias THEN Redirect(Target(r), 307)
    ELSE IF r.path \in DOMAIN d THEN <<Write(d[r.path])>>
    ELSE static(r)

\* http.StripPrefix("/s/", http.FileServer(newFileSystem(dir))): the prefix is
\* cut, the file server puts the leading "/" back and opens that path
StorePath(r) == <<Slash>> \o TrimPrefix(r.path, SPrefix)

handleStatic(r) == FileServer(StorePath(r), CachingOpen(cache, disk, reads, StorePath(r)).ret)

\* the static handler of Mux (part_000:30), as the README and the static
\* fallback stage describe it: static URLs are under /s/; http.StripPrefix
\* answers 404 for any other path and the store is not consulted
staticUnderPrefix(r) ==
    IF HasPrefix(r.path, SPrefix) THEN handleStatic(r)
    ELSE <<WriteHeader(404), Write(<<"Not Found">>)>>

\* a dispatcher that validates the host before the metrics stage
MuxStagesHostFirst(r) ==
    IF r.host # host THEN <<WriteHeader(404)>>
    ELSE IF r.path = MetricsPath THEN metricsStage(r)
    ELSE IF r.path \in DOMAIN d THEN <<Write(d[r.path])>>
    ELSE IF r.path \in DOMAIN alias THEN Redirect(Target(r), 307)
    ELSE staticUnderPrefix(r)

\* Mux.ServeHTTP of part_000:38: the content is looked up before the alias
MuxStages(r) ==
    IF r.path = MetricsPath THEN metricsStage(r)
    ELSE IF r.host # host THEN <<WriteHeader(404)>>
    ELSE IF r.path \in DOMAIN d THEN <<Write(d[r.path])>>
    ELSE IF r.path \in DOMAIN alias THEN Redirect(Target(r), 307)
    ELSE staticUnderPrefix(r)

\* mux.ServeHTTP of part_004:209: host, content, static
mux4Stages(r) ==
    IF r.host # host THEN <<WriteHeader(404)>>
    ELSE IF r.path \in DOMAIN d THEN <<Write(d[r.path])>>
    ELSE static(r)

\* the deferred function of part_000:42 and part_002:209: it runs also when
\* the handler panics
Deferred(cs) == cs \o <<Inc(StatusCode(cs))>>

\* requiresAuth (main.go:442)
requiresAuth(r) ==
    LET chunks == Split(r.auth, Space) IN
    IF Len(chunks) = 2 /\ chunks[2] = bearerToken THEN MetricsHandler
    ELSE <<WriteHeader(401), Write(<<"Unauthorized">>)>>

\* analyzer (main.go:469): the counter is incremented after the handler returns
analyze(cs) == IF \E i \in 1..Len(cs) : cs[i] = Panic THEN cs ELSE cs \o <<Inc(StatusCode(cs))>>

\* handleIndex (main.go:484): the home page, then the aliases
handleIndex(r) ==
    IF r.path = Root THEN <<Write(d[Root])>>
    ELSE IF r.path \notin DOMAIN alias THEN <<WriteHeader(404), Write(<<"Not Found">>)>>
    ELSE Redirect(Target(r), 307)

\* handlePages (main.go:546): parsed[p.URL] = p.Content, a later page wins
RECURSIVE parsedOf(_)
parsedOf(ps) ==
    IF ps = <<>> THEN <<>>
    ELSE LET rest == parsedOf(SubSeq(ps, 1, Len(ps) - 1))
             p == ps[Len(ps)]
         IN  [q \in DOMAIN rest \cup {p.Path} |-> IF q = p.Path THEN p.Content ELSE rest[q]]

handlePages(r) ==
    IF r.path \notin DOMAIN parsedOf(pages) THEN <<WriteHeader(404), Write(<<"Not Found">>)>>
    ELSE <<Write(parsedOf(pages)[r.path])>>

\* handleFeed (main.go:514): the items are appended from the last page to the first
RECURSIVE feedItems(_)
feedItems(ps) ==
    IF ps = <<>> THEN <<>>
    ELSE ps[Len(ps)].Path \o feedItems(SubSeq(ps, 1, Len(ps) - 1))

handleFeed(r) == <<Write(<<"<rss>">> \o feedItems(pages))>>

\* the routes of http.ServeMux registered in run (main.go:417)
serveMux(r) ==
    IF r.path = MetricsPath THEN requiresAuth(r)
    ELSE IF r.path = FeedPath THEN analyze(handleFeed(r))
    ELSE IF HasPrefix(r.path, BPrefix) THEN analyze(handlePages(r))
    ELSE IF HasPrefix(r.path, SPrefix) THEN analyze(handleStatic(r))
    ELSE analyze(handleIndex(r))

ServeHTTP(r) ==
    CASE variant = "main.go" -> muxStages(r)
      [] variant = "part_002" -> Deferred(muxStages(r))
      [] variant = "part_000" -> Deferred(MuxStages(r))
      [] variant = "part_004" -> mux4Stages(r)
      [] variant = "servemux" -> serveMux(r)

\* the snapshots whose static handler is the caching store under /s/
CachingVariants == {"servemux", "part_000"}

\* whether the request reaches the caching store
UsesStore(r) ==
    variant \in CachingVariants /\ \E i \in 1..Len(ServeHTTP(r)) : ServeHTTP(r)[i].op = "Open"

\* what the client is sent: the first WriteHeader's code, 200 when the body
\* starts without one or the handler returns without a call, and nothing (0)
\* when the handler panics first (net/http closes the connection)
RECURSIVE SentStatus(_)
SentStatus(cs) ==
    IF cs = <<>> THEN 200
    ELSE CASE Head(cs).op = "WriteHeader" -> Head(cs).code
           [] Head(cs).op = "Write" -> 200
           [] Head(cs).op = "panic" -> 0
           [] OTHER -> SentStatus(Tail(cs))

-----------------------------------------------------------------------------
(* The inputs *)

Variants == {"main.go", "part_002", "part_000", "part_004", "servemux"}

\* the snapshots whose main refuses to run without a metrics token
NeedsToken == {"main.go", "part_002", "part_000"}

FileNames == <<<<"a", ".md">>, <<"a", ".txt">>, <<"b", ".md">>>>

ArticleFile(i, open, lines, render) ==
    [name |-> FileNames[i], open |-> open, lines |-> lines, render |-> render]

Titles == <<"Post a", "Post a, as text", "Post b">>

WellFormed(i, date) == ArticleFile(i, TRUE, <<Titles[i], date, "Hello **world**">>, TRUE)

\* one article file: two well-formed ones, and one of each failure: a file
\* that does not open, one with no second line, one whose second line is no
\* date of the layout, one whose template fails
FileKinds(i) ==
    {WellFormed(i, "01/02/2023"), WellFormed(i, "03/02/2023"),
     ArticleFile(i, FALSE, <<Titles[i], "01/02/2023">>, TRUE),
     ArticleFile(i, TRUE, <<Titles[i]>>, TRUE),
     ArticleFile(i, TRUE, <<Titles[i], "2023-02-01", "text">>, TRUE),
     ArticleFile(i, TRUE, <<Titles[i], "01/02/2023", "text">>, FALSE)}

\* the directories: at most MaxFiles files, in file name order
Directories ==
    {fs \in UNION {[1..n -> UNION {FileKinds(i) : i \in 1..Len(FileNames)}] : n \in 0..MaxFiles} :
        \A i, j \in 1..Len(fs) : i < j =>
            \E a, b \in 1..Len(FileNames) :
                a < b /\ fs[i].name = FileNames[a] /\ fs[j].name = FileNames[b]}

ConfiguredHost == "satran.in"
Hosts == {ConfiguredHost, "other.example"}

Tokens == {<<"s">>, <<>>}

HeaderAtoms == {Space, "Bearer", "Basic", "s", "x"}
Headers == SeqsUpTo(HeaderAtoms, MaxHdrLen)

OldPath == <<Slash, "old">>
PageA == <<Slash, "b", Slash, "a">>
PageB == <<Slash, "b", Slash, "b">>
NewTarget == <<Slash, "b", Slash, "b">>

AliasKeys == {OldPath, PageA, MetricsPath}
AliasTables == {[k \in K |-> NewTarget] : K \in SUBSET AliasKeys}

ReqPaths == {Root, MetricsPath, FeedPath, PageA, PageB, OldPath, XPng, Docs,
             SPrefix \o Tail(XPng), SPrefix \o Tail(Docs)}

Queries == {<<>>, <<"k=v">>}

\* a few Authorization headers: none, the token, a wrong token, another scheme
SomeHeaders == {<<>>, <<"Bearer", Space, "s">>, <<"Bearer", Space, "x">>,
                <<"Basic", Space, "s">>, <<"Bearer", Space>>}

Requests ==
    {[path |-> p, host |-> h, query |-> q, auth |-> <<>>] :
        p \in ReqPaths \ {MetricsPath}, h \in Hosts, q \in Queries}
    \cup {[path |-> MetricsPath, host |-> h, query |-> <<>>, auth |-> a] :
            h \in Hosts, a \in SomeHeaders}

\* the requests to the metrics path, with every header up to MaxHdrLen atoms
MetricsRequests ==
    {[path |-> MetricsPath, host |-> h, query |-> <<>>, auth |-> a] :
        h \in Hosts, a \in Headers}

DiskOf(x, docs, index) ==
    [p \in Nodes |-> CASE p = XPng -> x [] p = Docs -> docs [] OTHER -> index]

File(v) == [kind |-> "file", version |-> v]
Kind(k) == [kind |-> k, version |-> 1]

ServingDisks == {DiskOf(File(1), Kind("dir"), File(1))}

-----------------------------------------------------------------------------
(* The server: startup, then one request after another *)

Procs == 1..NumProcs

Init ==
    /\ variant \in Variants
    /\ phase = "boot"
    /\ files \in Directories
    /\ host = ConfiguredHost
    /\ bearerToken \in Tokens
    /\ alias \in AliasTables
    /\ variant = "part_004" => bearerToken = <<>> /\ alias = <<>>
    /\ d = <<>>
    /\ pages = <<>>
    /\ req = NoReq
    /\ calls = <<>>
    /\ disk \in ServingDisks
    /\ cache = <<>>
    /\ reads = [p \in StaticPaths |-> 0]
    /\ ret = NoFile
    /\ pc = [g \in Procs |-> "idle"]
    /\ lock = 0
    /\ want = [g \in Procs |-> <<>>]
    /\ out = [g \in Procs |-> <<>>]

\* renderIndex of the snapshot; in servemux, the sort of run (main.go:410) and
\* the index handleIndex renders
renderIndex(index) ==
    IF variant = "part_004" THEN renderIndexAsRead(index) ELSE renderIndexSorted(index)

\* the content index the snapshot serves from
ContentIndex(articles, ix) ==
    LET base == IF variant = "servemux" THEN parsedOf(ix.pages) ELSE articles
        keys == DOMAIN base \cup {Root} \cup (IF variant = "servemux" THEN {FeedPath} ELSE {})
    IN  [q \in keys |->
            IF q = Root THEN ix.bytes
            ELSE IF q = FeedPath /\ variant = "servemux"
                 THEN <<"<rss>">> \o feedItems(ix.pages)
            ELSE base[q]]

StartupError ==
    IF variant \in NeedsToken /\ bearerToken = <<>> THEN "can't run without metrics token"
    ELSE parseLoop(files, <<>>, <<>>).err

\* main and run when startup fails: log.Fatal, nothing is served
RunFails ==
    /\ phase = "boot"
    /\ StartupError # ""
    /\ phase' = "failed"
    /\ UNCHANGED <<variant, files, host, bearerToken, alias, d, pages, req, calls,
                   disk, cache, reads, ret>>
    /\ UNCHANGED goroutines

\* main and run when startup succeeds: the server listens
RunServes ==
    /\ phase = "boot"
    /\ StartupError = ""
    /\ \E ix \in renderIndex(parseLoop(files, <<>>, <<>>).index) :
          /\ pages' = ix.pages
          /\ d' = ContentIndex(parseLoop(files, <<>>, <<>>).articles, ix)
    /\ phase' = "serving"
    /\ UNCHANGED <<variant, files, host, bearerToken, alias, req, calls,
                   disk, cache, reads, ret>>
    /\ UNCHANGED goroutines

\* what the handler's lookup in its static store gives and leaves behind
StoreResult(r) ==
    IF UsesStore(r) THEN CachingOpen(cache, disk, reads, StorePath(r))
    ELSE IF \E i \in 1..Len(ServeHTTP(r)) : ServeHTTP(r)[i].op = "Open"
    THEN [ret |-> FileSystemOpen(disk, r.path), cache |-> cache, reads |-> reads]
    ELSE [ret |-> NoFile, cache |-> cache, reads |-> reads]

\* a redirect that writes the target with the query back into the table
aliasAfterAppending(r) ==
    IF \E i \in 1..Len(ServeHTTP(r)) : ServeHTTP(r)[i].op = "Location"
    THEN [alias EXCEPT ![r.path] = Target(r)]
    ELSE alias

\* the alias table after the request: alias, ok := m.alias[path] copies the
\* target into a local string, and "?" and the query are appended to the copy
aliasAfter(r) == alias

\* one request, answered by the snapshot's handler
Request(r) ==
    /\ phase = "serving"
    /\ req = NoReq
    /\ req' = r
    /\ calls' = ServeHTTP(r)
    /\ alias' = aliasAfter(r)
    /\ cache' = StoreResult(r).cache
    /\ reads' = StoreResult(r).reads
    /\ ret' = StoreResult(r).ret
    /\ UNCHANGED <<variant, phase, files, host, bearerToken, d, pages, disk>>
    /\ UNCHANGED goroutines

Serve == \E r \in Requests : Request(r)

\* the handler has returned and the connection is closed (keep-alives are off)
Finish ==
    /\ phase = "serving"
    /\ req # NoReq
    /\ req' = NoReq
    /\ calls' = <<>>
    /\ ret' = NoFile
    /\ UNCHANGED <<variant, phase, files, host, bearerToken, alias, d, pages,
                   disk, cache, reads>>
    /\ UNCHANGED goroutines

Next == RunFails \/ RunServes \/ Serve \/ Finish

Spec == Init /\ [][Next]_vars

-----------------------------------------------------------------------------
(* The metrics endpoint under every Authorization header *)

TwoArticles == <<WellFormed(1, "01/02/2023"), WellFormed(3, "03/02/2023")>>

InitAuth ==
    /\ Init
    /\ files = TwoArticles
    /\ alias \in {<<>>, [k \in {MetricsPath} |-> NewTarget]}

ServeMetrics == \E r \in MetricsRequests : Request(r)

NextAuth == RunFails \/ RunServes \/ ServeMetrics \/ Finish

SpecAuth == InitAuth /\ [][NextAuth]_vars

-----------------------------------------------------------------------------
(* The static stores: requests for static paths, a reader consuming a      *)
(* cached entry, and the static directory changing under the server.       *)

XNodes == {Absent, File(1), File(2), Kind("denied"), Kind("badstat"), Kind("badread")}
IndexNodes == {Absent, File(1), Kind("denied")}

StoreDisks ==
    {DiskOf(x, Absent, Absent) : x \in XNodes}
    \cup {DiskOf(x, Kind("dir"), i) : x \in XNodes, i \in IndexNodes}

StoreRequests ==
    {[path |-> p, host |-> ConfiguredHost, query |-> <<>>, auth |-> <<>>] :
        p \in StaticPaths \cup {SPrefix \o Tail(q) : q \in StaticPaths}}

InitStore ==
    /\ Init
    /\ files = <<>>
    /\ alias = <<>>
    /\ bearerToken = IF variant = "part_004" THEN <<>> ELSE <<"s">>

ServeStatic == \E r \in StoreRequests : Request(r)

\* a reader of a cached entry takes the next byte: the entry's cursor moves
ReadSome ==
    /\ phase = "serving"
    /\ \E p \in DOMAIN cache :
          /\ cache[p].cursor < Len(cache[p].content)
          /\ cache' = [cache EXCEPT ![p].cursor = @ + 1]
    /\ UNCHANGED <<variant, phase, files, host, bearerToken, alias, d, pages, req,
                   calls, disk, reads, ret>>
    /\ UNCHANGED goroutines

\* a file or directory of the static directory is changed on disk
DiskChange ==
    /\ phase = "serving"
    /\ \E dk \in StoreDisks :
          /\ Cardinality({n \in Nodes : dk[n] # disk[n]}) = 1
          /\ disk' = dk
    /\ UNCHANGED <<variant, phase, files, host, bearerToken, alias, d, pages, req,
                   calls, cache, reads, ret>>
    /\ UNCHANGED goroutines

NextStore == RunServes \/ ServeStatic \/ Finish \/ ReadSome \/ DiskChange

SpecStore == InitStore /\ [][NextStore]_vars

-----------------------------------------------------------------------------
(* The status-capturing response writer under any handler: a wrapped       *)
(* handler calls WriteHeader and Write in any order, any number of times.  *)

Codes == {200, 404, 500}

InitWriter ==
    /\ InitStore
    /\ variant \in {"part_000", "servemux"}
    /\ disk \in ServingDisks

\* a request reaches a wrapped handler
BeginRequest ==
    /\ phase = "serving"
    /\ req = NoReq
    /\ req' \in {r \in StoreRequests : r.path \in {XPng, SPrefix \o Tail(XPng)}}
    /\ UNCHANGED <<variant, phase, files, host, bearerToken, alias, d, pages, calls,
                   disk, cache, reads, ret>>
    /\ UNCHANGED goroutines

\* the handler calls WriteHeader or Write on the ResponseWriter
WriterCall ==
    /\ phase = "serving"
    /\ req # NoReq
    /\ Len(calls) < MaxCalls
    /\ \E c \in {WriteHeader(k) : k \in Codes} \cup {Write(<<"body">>)} :
          calls' = Append(calls, c)
    /\ UNCHANGED <<variant, phase, files, host, bearerToken, alias, d, pages, req,
                   disk, cache, reads, ret>>
    /\ UNCHANGED goroutines

NextWriter == RunServes \/ BeginRequest \/ WriterCall \/ Finish

SpecWriter == InitWriter /\ [][NextWriter]_vars

-----------------------------------------------------------------------------
(* The caching store under concurrent requests: one goroutine per request. *)
(* Open takes the store's lock, looks the path up, on a miss opens the     *)
(* path and then reads the file and inserts the entry, and gives the lock  *)
(* back when it returns.  The entry it returns is the store's own: its     *)
(* read cursor is shared by every goroutine that got the entry.            *)

LockPaths == {XPng, Docs}

LockDisks ==
    {DiskOf(x, dcs, i) : x \in {Absent, File(1), Kind("badread")},
                         dcs \in {Kind("dir")}, i \in {Absent, File(1)}}

InitLock ==
    /\ InitStore
    /\ variant = "servemux"
    /\ disk \in LockDisks

\* a lock that lets every caller in
MayLockAlways(g) == TRUE

\* whether the goroutine may take the lock: sync.Mutex, free or not
MayLock(g) == lock = 0

\* the states in which a goroutine is between Lock and Unlock
Holding == {"locked", "reading"}

\* whether the open stage of a miss goes through: the path opens, its stat
\* works, a directory's index.html opens
OpensOnMiss(dsk, path) ==
    /\ DirOpen(dsk, path) = ""
    /\ Node(dsk, path).kind # "badstat"
    /\ Node(dsk, path).kind = "dir" => DirOpen(dsk, IndexOf(path)) = ""

\* a request's goroutine calls Open of the store
Call(g) ==
    /\ phase = "serving"
    /\ pc[g] = "idle"
    /\ \E path \in LockPaths : want' = [want EXCEPT ![g] = path]
    /\ pc' = [pc EXCEPT ![g] = "waiting"]
    /\ UNCHANGED <<variant, phase, files, host, bearerToken, alias, d, pages, req,
                   calls, disk, cache, reads, ret, lock, out>>

\* Lock
Lock(g) ==
    /\ pc[g] = "waiting"
    /\ MayLock(g)
    /\ lock' = g
    /\ pc' = [pc EXCEPT ![g] = "locked"]
    /\ UNCHANGED <<variant, phase, files, host, bearerToken, alias, d, pages, req,
                   calls, disk, cache, reads, ret, want, out>>

\* an error return that forgets the Unlock
ReturnErrorKeepsLock(g) ==
    /\ lock' = lock
    /\ pc' = [pc EXCEPT ![g] = "idle"]
    /\ want' = [want EXCEPT ![g] = <<>>]

\* Open returns an error: the lock is given back and the request ends (404)
ReturnError(g) ==
    /\ lock' = 0
    /\ pc' = [pc EXCEPT ![g] = "idle"]
    /\ want' = [want EXCEPT ![g] = <<>>]

\* Open returns the entry: the lock is given back and the file server reads
ReturnEntry(g) ==
    /\ lock' = 0
    /\ pc' = [pc EXCEPT ![g] = "reader"]
    /\ want' = want

\* under the lock: the lookup; a hit resets the cursor and returns, a miss
\* opens the path and returns the error when that fails
OpenLocked(g) ==
    /\ pc[g] = "locked"
    /\ IF want[g] \in DOMAIN cache
       THEN /\ cache' = CacheHit(cache, disk, reads, want[g]).cache
            /\ ReturnEntry(g)
       ELSE /\ cache' = cache
            /\ IF OpensOnMiss(disk, want[g])
               THEN pc' = [pc EXCEPT ![g] = "reading"] /\ UNCHANGED <<lock, want>>
               ELSE ReturnError(g)
    /\ UNCHANGED <<variant, phase, files, host, bearerToken, alias, d, pages, req,
                   calls, disk, reads, ret, out>>

\* under the lock: the miss reads the whole file, inserts the entry and returns
ReadLocked(g) ==
    /\ pc[g] = "reading"
    /\ cache' = CachingOpen(cache, disk, reads, want[g]).cache
    /\ reads' = CachingOpen(cache, disk, reads, want[g]).reads
    /\ IF CachingOpen(cache, disk, reads, want[g]).ret.err = ""
       THEN ReturnEntry(g) ELSE ReturnError(g)
    /\ UNCHANGED <<variant, phase, files, host, bearerToken, alias, d, pages, req,
                   calls, disk, ret, out>>

\* the file server reads the entry it got: the byte at the entry's cursor,
\* or the end of the file when the cursor is at the end; the bytes the
\* goroutine receives are kept when recorded is TRUE
Consume(g, recorded) ==
    /\ pc[g] = "reader"
    /\ IF cache[want[g]].cursor < Len(cache[want[g]].content)
       THEN /\ recorded => Len(out[g]) < MaxOut
            /\ out' = IF recorded
                      THEN [out EXCEPT ![g] = Append(@, cache[want[g]].content[cache[want[g]].cursor + 1])]
                      ELSE out
            /\ cache' = [cache EXCEPT ![want[g]].cursor = @ + 1]
            /\ pc' = pc
       ELSE /\ pc' = [pc EXCEPT ![g] = "eof"]
            /\ UNCHANGED <<out, cache>>
    /\ UNCHANGED <<variant, phase, files, host, bearerToken, alias, d, pages, req,
                   calls, disk, reads, ret, lock, want>>

Read(g) == Consume(g, FALSE)

\* the request ends: after the end of the file, or because the client went away
Done(g) ==
    /\ pc[g] \in {"reader", "eof"}
    /\ pc' = [pc EXCEPT ![g] = "idle"]
    /\ want' = [want EXCEPT ![g] = <<>>]
    /\ out' = [out EXCEPT ![g] = <<>>]
    /\ UNCHANGED <<variant, phase, files, host, bearerToken, alias, d, pages, req,
                   calls, disk, cache, reads, ret, lock>>

\* a file of the static directory is changed on disk
DiskChangeLock ==
    /\ phase = "serving"
    /\ \E dk \in LockDisks :
          /\ Cardinality({n \in Nodes : dk[n] # disk[n]}) = 1
          /\ disk' = dk
    /\ UNCHANGED <<variant, phase, files, host, bearerToken, alias, d, pages, req,
                   calls, cache, reads, ret>>
    /\ UNCHANGED goroutines

Goroutine(g) == Call(g) \/ Lock(g) \/ OpenLocked(g) \/ ReadLocked(g) \/ Read(g) \/ Done(g)

NextLock == RunServes \/ DiskChangeLock \/ \E g \in Procs : Goroutine(g)

SpecLock == InitLock /\ [][NextLock]_vars

\* fair scheduling: the goroutine holding the lock goes on running until it
\* returns, and a goroutine waiting for a lock that becomes free again and
\* again gets it (sync.Mutex hands the lock to a starving waiter)
SpecLockFair ==
    /\ SpecLock
    /\ \A g \in Procs : WF_vars(OpenLocked(g)) /\ WF_vars(ReadLocked(g)) /\ SF_vars(Lock(g))

\* the same with the bytes each reader receives kept, on a disk that stays as it is
ReadRecorded(g) == Consume(g, TRUE)

NextRead == RunServes \/ \E g \in Procs : Call(g) \/ Lock(g) \/ OpenLocked(g) \/ ReadLocked(g)
                                              \/ ReadRecorded(g) \/ Done(g)

SpecRead == InitLock /\ [][NextRead]_vars

-----------------------------------------------------------------------------
(* Properties of the dispatcher *)

Answered == phase = "serving" /\ req # NoReq

Made(c) == \E i \in 1..Len(calls) : calls[i] = c

MadeOp(op) == \E i \in 1..Len(calls) : calls[i].op = op

\* the snapshots that have a metrics endpoint
MetricsVariants == Variants \ {"part_004"}

Chunks == Split(req.auth, Space)

\* C1: a request with the configured host, not to the metrics path, whose path
\* is a key of the content index is answered 200 with the indexed bytes and
\* without a redirect, also when the path is a key of the alias table.
C1_ContentWinsOverAlias ==
    (Answered /\ req.host = host /\ req.path # MetricsPath /\ req.path \in DOMAIN d)
        => /\ SentStatus(calls) = 200
           /\ Made(Write(d[req.path]))
           /\ ~MadeOp("Location")

\* C2: a request whose host differs from the configured host, not to the
\* metrics path, is answered 404: no content bytes, no redirect and no lookup
\* in the static store.
C2_ForeignHostIs404 ==
    (Answered /\ req.host # host /\ req.path # MetricsPath)
        => /\ SentStatus(calls) = 404
           /\ ~MadeOp("Write")
           /\ ~MadeOp("Location")
           /\ ~MadeOp("Open")

\* whether the header carries the configured token as its second of two chunks
Authorized == Len(Chunks) = 2 /\ Chunks[2] = bearerToken

\* C3: a request to the metrics path is answered 401, without the metrics
\* handler being called, unless its Authorization header splits into exactly
\* two chunks of which the second is the configured token; then it is
\* delegated to the metrics handler and answered 200.
C3_MetricsAuth ==
    (Answered /\ variant \in MetricsVariants /\ req.path = MetricsPath)
        => IF Authorized
           THEN SentStatus(calls) = 200 /\ Made(Delegate("metrics"))
           ELSE SentStatus(calls) = 401 /\ ~MadeOp("Delegate")

\* C4: the metrics stage comes before host validation: whatever the host, a
\* metrics request with the configured token is delegated, one with another
\* token is answered 401, and none is answered 404.
C4_MetricsBeforeHost ==
    (Answered /\ variant \in MetricsVariants /\ req.path = MetricsPath)
        => /\ Authorized => Made(Delegate("metrics")) /\ SentStatus(calls) = 200
           /\ (Len(Chunks) >= 2 /\ ~Authorized) => SentStatus(calls) = 401
           /\ SentStatus(calls) # 404

C4_Witness ==
    /\ Answered /\ variant = "part_000" /\ req.path = MetricsPath /\ req.host # host
    /\ Len(Chunks) = 2 /\ Chunks[2] # bearerToken
    /\ SentStatus(calls) = 401

\* the Location a redirect of the request to its alias must carry
ExpectedLocation ==
    IF req.query = <<>> THEN alias[req.path] ELSE alias[req.path] \o <<"?">> \o req.query

\* C5: a request with the configured host to an alias key that is no key of
\* the content index is answered 307 with the alias target, followed by "?"
\* and the raw query when there is one.  The metrics path is left out: the
\* metrics stage comes first in every snapshot.
C5_AliasRedirects ==
    (Answered /\ req.host = host /\ req.path # MetricsPath
              /\ req.path \in DOMAIN alias /\ req.path \notin DOMAIN d)
        => SentStatus(calls) = 307 /\ Made(Location(ExpectedLocation))

\* C6: a metrics request is delegated to the metrics handler only when its
\* Authorization header is "Bearer", a space and the configured token; a
\* header of another scheme is answered 401 also when its second chunk is
\* the token.
C6_BearerSchemeRequired ==
    (Answered /\ variant \in MetricsVariants /\ req.path = MetricsPath)
        => /\ MadeOp("Delegate") => Chunks = <<<<"Bearer">>, bearerToken>>
           /\ (Len(Chunks) = 2 /\ Chunks[1] # <<"Bearer">>) => SentStatus(calls) = 401

\* C21: without a configured token the metrics handler is out of reach:
\* either startup refused to run, or every request to the metrics path is
\* answered 401 and never delegated, the header "Bearer " with an empty
\* second chunk included.
C21_NoMetricsWithoutSecret ==
    (Answered /\ req.path = MetricsPath /\ bearerToken = <<>>)
        => /\ ~MadeOp("Delegate")
           /\ variant \in MetricsVariants => SentStatus(calls) = 401

\* C12: the static store is opened only for request paths under /s/, with
\* the path cut of that prefix; a request with the configured host whose path
\* is not the metrics path, no key of the content index, no alias and not
\* under /s/ is answered 404 without a lookup in the static store.
C12_StaticOnlyUnderPrefix ==
    Answered =>
        /\ \A i \in 1..Len(calls) :
               calls[i].op = "Open"
                   => HasPrefix(req.path, SPrefix) /\ calls[i] = OpenCall(StorePath(req))
        /\ (req.host = host /\ req.path # MetricsPath /\ req.path \notin DOMAIN d
               /\ req.path \notin DOMAIN alias /\ ~HasPrefix(req.path, SPrefix))
              => SentStatus(calls) = 404 /\ ~MadeOp("Open")

\* the body of the answer to a content hit is the indexed bytes, and the
\* Location of a redirect is the table's target and the request's own query
AnswersFromTables ==
    Answered =>
        /\ \A k \in DOMAIN alias : alias[k] = NewTarget
        /\ MadeOp("Location") => Made(Location(ExpectedLocation))
        /\ (SentStatus(calls) = 200 /\ req.path \in DOMAIN d /\ req.path # MetricsPath
               /\ ~MadeOp("Open"))
              => Made(Write(d[req.path]))

\* C13: once the server serves, no step changes the content index, the alias
\* table, the configured host or the token; every content hit is answered
\* with the indexed bytes, so two hits of one path get the same body, and a
\* redirect carries the table's target with its own request's query only.
C13_RequestsLeaveTablesAlone ==
    /\ [][phase = "serving" =>
             d' = d /\ alias' = alias /\ host' = host /\ bearerToken' = bearerToken]_vars
    /\ []AnswersFromTables

\* a redirect with a query was answered and the table holds the bare target
C13_Witness ==
    /\ Answered /\ variant = "part_000" /\ req.path = OldPath /\ req.query = <<"k=v">>
    /\ Made(Location(NewTarget \o <<"?", "k=v">>))
    /\ alias[OldPath] = NewTarget

\* the snapshots that count requests
InstrumentedVariants == {"part_000", "part_002", "servemux"}

\* the increments among the calls
Increments == {i \in 1..Len(calls) : calls[i].op = "Inc"}

\* C15: every request, the metrics requests and the rejected ones included,
\* makes exactly one increment of the counter, after the handler's other
\* calls, labelled with the status the client was sent.  (The requests whose
\* handler panics, C3's case, are left out.)
C15_OneIncrementPerRequest ==
    (Answered /\ variant \in InstrumentedVariants /\ ~Made(Panic))
        => /\ Cardinality(Increments) = 1
           /\ calls[Len(calls)] = Inc(SentStatus(calls))

\* C16: StatusCode() of the response writer is the first status written
\* through it: 200 when WriteHeader was not called or the body came first,
\* the code of the first WriteHeader call otherwise, whatever is called later.
C16_StatusCodeIsFirstWritten ==
    (phase = "serving" /\ req # NoReq) => StatusCode(calls) = SentStatus(calls)

-----------------------------------------------------------------------------
(* Properties of the static stores *)

\* the path the handler gave to its static store
OpenedPath == IF variant \in CachingVariants THEN StorePath(req) ELSE req.path

\* the step is a request whose handler opened a path in its static store
OpenStep == req = NoReq /\ req' # NoReq /\ \E i \in 1..Len(calls') : calls'[i].op = "Open"

\* a cached entry is kept as it is, and its file is not read again
EntriesKept ==
    \A p \in DOMAIN cache :
        /\ p \in DOMAIN cache'
        /\ cache'[p].content = cache[p].content
        /\ cache'[p].isDir = cache[p].isDir
        /\ cache'[p].listing = cache[p].listing
        /\ reads'[p] = reads[p]

\* an entry is made by reading the file as it is on disk then
EntriesRead ==
    \A p \in DOMAIN cache' \ DOMAIN cache :
        /\ cache'[p].content = Bytes(disk, p)
        /\ reads'[p] = Bump(reads, p)[p]

\* an Open of the caching store that succeeds returns the entry's bytes, at offset 0
ReturnsEntryAtStart ==
    (Answered /\ variant \in CachingVariants /\ MadeOp("Open") /\ ret.err = "")
        => /\ ret.cursor = 0
           /\ OpenedPath \in DOMAIN cache
           /\ ret.content = cache[OpenedPath].content

\* C7: the caching store reads a path's file from disk when it makes the
\* entry and never again; an entry is never dropped or changed; every Open
\* that succeeds, miss or hit, returns the entry's bytes with a reader at
\* offset 0, however far the entry was read before.
C7_CachedOnceReadFromStart ==
    [](ReturnsEntryAtStart) /\ [][EntriesKept /\ EntriesRead]_vars

\* a hit after the file changed on disk and the entry was read to its end
C7_Witness ==
    /\ Answered /\ variant = "servemux" /\ OpenedPath = XPng /\ ret.err = ""
    /\ ret.content = VersionBytes(1) /\ disk[XPng] = File(2)
    /\ reads[XPng] = 1
    /\ DocsIndex \in DOMAIN cache /\ cache[DocsIndex].cursor = 2

\* what C8 asks of an Open of path p that returned f, on the disk dsk
IndexRule(dsk, p, f) ==
    /\ (Node(dsk, p).kind = "dir" /\ DirOpen(dsk, IndexOf(p)) # "")
           => f.err \in {ENOENT, DirOpen(dsk, IndexOf(p))} /\ f.path = <<>>
    /\ (Node(dsk, p).kind = "dir" /\ Node(dsk, IndexOf(p)).kind = "absent")
           => f.err = ENOENT
    /\ (Node(dsk, p).kind = "dir" /\ DirOpen(dsk, IndexOf(p)) = "")
           => f.err = "" /\ f.path = p /\ f.isDir /\ f.listing = <<"index.html">>
    /\ Node(dsk, p).kind = "file"
           => f.err = "" /\ f.path = p /\ ~f.isDir /\ f.content = Bytes(dsk, p)

C11_StatErrorIsNotFound ==
    [][(OpenStep /\ OpenedPath' \notin DOMAIN cache /\ Node(disk, OpenedPath').kind = "badstat")
          => /\ ret'.err # "" /\ ~ret'.panic
             /\ SentStatus(calls') = 404
             /\ \A i \in 1..Len(calls') : calls'[i] # Panic]_vars

-----------------------------------------------------------------------------
(* Properties of the caching store under concurrent requests *)

\* at most one goroutine is between Lock and Unlock, and it is the lock's holder
OneHolder ==
    /\ \A g, h \in Procs : (pc[g] \in Holding /\ pc[h] \in Holding) => g = h
    /\ \A g \in Procs : pc[g] \in Holding <=> lock = g

\* the file is read and the entry inserted in a step of the lock's holder,
\* who has held the lock since its lookup, and only for a path that has no entry
MissUnderLock ==
    (DOMAIN cache' # DOMAIN cache \/ reads' # reads)
        => \E g \in Procs :
              /\ lock = g
              /\ pc[g] = "reading"
              /\ want[g] \notin DOMAIN cache
              /\ DOMAIN cache' \subseteq DOMAIN cache \cup {want[g]}
              /\ reads' = Bump(reads, want[g])

\* C14: in every interleaving of concurrent Open calls at most one call is
\* between taking and giving back the lock; the lock is held over the whole
\* miss, the read of the file and the insertion included, so two first
\* requests of one path never both read the file or both insert an entry.
C14_OpenIsMutuallyExclusive == []OneHolder /\ [][MissUnderLock]_vars

\* one goroutine reads the file under the lock while another waits for the same path
C14_Witness ==
    \E g, h \in Procs :
        /\ pc[g] = "reading" /\ pc[h] = "waiting"
        /\ want[g] = XPng /\ want[h] = XPng /\ lock = g

\* C18: a goroutine that got an entry from Open and read it to the end has
\* received the entry's content, every byte once and in order, whatever the
\* other goroutines did with the same path in the meantime.
C18_ReaderGetsContentOnce ==
    \A g \in Procs : pc[g] = "eof" => out[g] = cache[want[g]].content

\* whether the file system gives the path's bytes now: it opens, its stat
\* works, a directory has an index.html that opens, the read goes through
Readable(dsk, path) == OpensOnMiss(dsk, path) /\ Node(dsk, path).kind # "badread"

\* an Open that returns an error was holding the lock, gives it back and
\* leaves the cache as it was; it fails for a path without an entry that the
\* file system does not give at that moment, never from memory
FailingOpen ==
    \A g \in Procs :
        (pc[g] \in Holding /\ pc'[g] = "idle")
            => /\ lock = g /\ lock' = 0
               /\ cache' = cache
               /\ want[g] \notin DOMAIN cache
               /\ ~Readable(disk, want[g])

\* an Open of a path without an entry reads the file system in this call
\* and returns what the file system holds now
MissReadsDisk ==
    \A g \in Procs :
        (pc[g] = "reading" /\ pc'[g] = "reader")
            => /\ Readable(disk, want[g])
               /\ reads' = Bump(reads, want[g])
               /\ cache'[want[g]] = Opened(disk, want[g])
               /\ lock' = 0

\* the cache holds whole entries of successful reads only
WholeEntries ==
    \A p \in DOMAIN cache :
        /\ cache[p].err = ""
        /\ reads[p] > 0
        /\ \E dk \in LockDisks : Readable(dk, p) /\ cache[p].content = Bytes(dk, p)

\* every call waiting for the lock returns, with the entry or with an error
WaitingReturns == \A g \in Procs : (pc[g] = "waiting") ~> (pc[g] \in {"idle", "reader"})

\* C19: an Open that fails (no such path, a directory without index.html, a
\* read error) leaves the cache as it was and gives the lock back; under
\* fair scheduling every call waiting for the lock returns; an Open of a
\* path that failed before goes to the file system again, and the cache
\* never holds a failure or a partial entry.
C19_FailingOpenReleases ==
    /\ [][FailingOpen /\ MissReadsDisk]_vars
    /\ []WholeEntries
    /\ WaitingReturns

\* the read of x.png failed and the lock is free again; a later Open of
\* x.png read the file anew and cached it
C19_Witness ==
    /\ reads[XPng] = 2 /\ XPng \in DOMAIN cache /\ lock = 0
    /\ \E g \in Procs : pc[g] = "reader" /\ want[g] = XPng

-----------------------------------------------------------------------------
(* Properties of startup *)

\* C9: on the home page built at startup a page of a later date is listed
\* before a page of an earlier date, whatever the order of the files.
C9_HomePageNewestFirst ==
    phase = "serving"
        => /\ \A i, j \in 1..Len(pages) : pages[i].Date > pages[j].Date => i < j
           /\ d[Root] = <<"<index>">> \o Listing(pages)

\* whether the file compiles: it opens, its second line is a date, its template renders
Compiles(f) == f.open /\ ParseDate(Line(f, 2)) # 0 /\ f.render

ItemAt(feed, path) ==
    LET at == {k \in 1..Len(feed) :
                  k + Len(path) - 1 <= Len(feed) /\ SubSeq(feed, k, k + Len(path) - 1) = path}
    IN  IF at = {} THEN 0 ELSE CHOOSE i \in at : \A k \in at : i <= k

\* C17: the feed lists the pages as the home page does, most recent first:
\* of two pages the item of the page of the later date comes before the item
\* of the page of the earlier date.
C17_FeedNewestFirst ==
    (phase = "serving" /\ variant = "servemux")
        => \A i, j \in 1..Len(pages) :
              (pages[i].Date > pages[j].Date /\ pages[i].Path # pages[j].Path)
                  => /\ ItemAt(d[FeedPath], pages[i].Path) > 0
                     /\ ItemAt(d[FeedPath], pages[i].Path) < ItemAt(d[FeedPath], pages[j].Path)

\* C20: every page listed on the home page resolves to its own content: the
\* content index maps the path of every compiled page to that page's
\* rendered content, also when two files derive the same path.
C20_ListedPageResolves ==
    phase = "serving"
        => \A i \in 1..Len(pages) :
              /\ pages[i].Path \in DOMAIN d
              /\ d[pages[i].Path] = pages[i].Content

====
